---------------------------- MODULE Spec2Model ----------------------------
(***************************************************************************)
(* GitZip (CodeOfExile/gitzip): the folder archive builder of              *)
(* src/src/GZipEdit.js (createZipFromFolder, getAllFiles, parseGitignore,  *)
(* checkGitFiles, processPath) as a state machine, and the rule matcher    *)
(* it builds from a .gitignore as operators with a probing specification.  *)
(* Further specifications cover the extraction paths of the zip editor     *)
(* (src/unnamed/part_002) and of cmds.js, the editor's archive load and    *)
(* message handler, and gzipFile (src/src/cmds.js).                        *)
(*                                                                         *)
(* Paths are sequences of name segments: <<"dist", "b.js">> is the         *)
(* relative path "dist/b.js".  A rule line of a .gitignore is a record     *)
(*   [neg, lead, segs, trail]                                              *)
(* standing for the text  (neg ? "!" : "") (lead ? "/" : "") segs joined   *)
(* by "/" (trail ? "/" : "").                                              *)
(***************************************************************************)
EXTENDS Integers, Sequences, FiniteSets, TLC

(***************************************************************************)
(* Bounds of the model.                                                    *)
(***************************************************************************)
\* largest number of entries under the root folder
MaxTree == 4
\* largest number of rule lines of a .gitignore in a build
MaxBuildRules == 1
\* largest number of rule lines of a .gitignore handed to the matcher probe
MaxRules == 2

(***************************************************************************)
(* The names of the model's file systems.                                  *)
(***************************************************************************)
RootName == "proj"
CustomNames == {"", "pkg"}

\* String.prototype.startsWith('..') on a relative path: true of every path
\* whose first segment begins with two dots, "..data" as well as "..".
StartsWithDotDot(rel) == Len(rel) > 0 /\ rel[1] \in {"..", "..data"}

\* /^[a-zA-Z]:/ on a relative path: a first segment that begins like a drive.
StartsWithDrive(rel) == Len(rel) > 0 /\ rel[1] \in {"c:"}

(***************************************************************************)
(* The `ignore` package as parseGitignore uses it: add() registers rules   *)
(* in order, ignores() tests a relative path.                              *)
(***************************************************************************)
\* one path segment of a rule against one name: a literal, or the glob *.txt
SegMatch(pseg, name) ==
  IF pseg = "*.txt" THEN name \in {"x.txt"} ELSE pseg = name

\* String.prototype.startsWith('/') / endsWith('/') of a rule's text
RuleStartsWithSlash(r) == ~r.neg /\ r.lead
RuleEndsWithSlash(r) == r.trail

\* the regular expression `ignore` makes of a rule, applied to a path given
\* with (asDir) or without a trailing slash.  A rule with a slash at its
\* beginning or in its middle is anchored at the root; any other rule matches
\* the last segment at any depth; a rule ending in "/" needs the trailing slash.
RuleMatches(r, p, asDir) ==
  /\ Len(p) > 0
  /\ r.trail => asDir
  /\ IF r.lead \/ Len(r.segs) > 1
       THEN /\ Len(p) = Len(r.segs)
            /\ \A i \in 1..Len(p) : SegMatch(r.segs[i], p[i])
       ELSE SegMatch(r.segs[1], p[Len(p)])

\* Ignore._testOne: the rules in order, the last one that matches decides;
\* a rule that cannot change the verdict is not tested.
RECURSIVE TestOneFrom(_, _, _, _, _)
TestOneFrom(rules, i, p, asDir, st) ==
  IF i > Len(rules) THEN st
  ELSE LET r == rules[i]
           skip == \/ (st.unignored = r.neg /\ st.ignored # st.unignored)
                   \/ (r.neg /\ ~st.ignored /\ ~st.unignored)
           nxt == IF ~skip /\ RuleMatches(r, p, asDir)
                    THEN [ignored |-> ~r.neg, unignored |-> r.neg]
                    ELSE st
       IN TestOneFrom(rules, i + 1, p, asDir, nxt)

TestOne(rules, p, asDir) ==
  TestOneFrom(rules, 1, p, asDir, [ignored |-> FALSE, unignored |-> FALSE])

\* Ignore._t: a path under an ignored directory is ignored, whatever the rules
\* say of the path itself; each parent is tested as a directory.
RECURSIVE TestPath(_, _, _)
TestPath(rules, p, asDir) ==
  IF Len(p) <= 1 THEN TestOne(rules, p, asDir)
  ELSE LET parent == TestPath(rules, SubSeq(p, 1, Len(p) - 1), TRUE)
       IN IF parent.ignored THEN parent ELSE TestOne(rules, p, asDir)

\* Ignore.ignores(relativePath): the enumerator's paths carry no trailing slash
Ignores(rules, p) == TestPath(rules, p, FALSE).ignored

(***************************************************************************)
(* parseGitignore (GZipEdit.js 656-734).                                   *)
(***************************************************************************)
\* AdditionalRulesOf without its case 1: no variant for a rule written X/
AdditionalRulesOf_NoCase1(r) ==
  IF RuleStartsWithSlash(r)
    THEN IF RuleEndsWithSlash(r)
           THEN << [r EXCEPT !.lead = FALSE, !.trail = FALSE],
                   [r EXCEPT !.lead = FALSE],
                   [r EXCEPT !.trail = FALSE] >>
           ELSE << [r EXCEPT !.lead = FALSE],
                   [r EXCEPT !.lead = FALSE, !.trail = TRUE] >>
    ELSE IF RuleEndsWithSlash(r) THEN << >> ELSE << [r EXCEPT !.trail = TRUE] >>

\* the variants the loop of lines 671-718 pushes for one rule line
AdditionalRulesOf(r) ==
  LET case1 == IF RuleEndsWithSlash(r) /\ ~RuleStartsWithSlash(r)
                 THEN << [r EXCEPT !.trail = FALSE] >> ELSE << >>
      case2 == IF ~RuleEndsWithSlash(r) /\ ~RuleStartsWithSlash(r)
                 THEN << [r EXCEPT !.trail = TRUE] >> ELSE << >>
      case3 == IF RuleStartsWithSlash(r) /\ ~RuleEndsWithSlash(r)
                 THEN << [r EXCEPT !.lead = FALSE],
                         [r EXCEPT !.lead = FALSE, !.trail = TRUE] >>
                 ELSE << >>
      case4 == IF RuleStartsWithSlash(r) /\ RuleEndsWithSlash(r)
                 THEN << [r EXCEPT !.lead = FALSE, !.trail = FALSE],
                         [r EXCEPT !.lead = FALSE],
                         [r EXCEPT !.trail = FALSE] >>
                 ELSE << >>
  IN case1 \o case2 \o case3 \o case4

RECURSIVE AdditionalRules(_)
AdditionalRules(lines) ==
  IF lines = << >> THEN << >>
  ELSE AdditionalRulesOf(Head(lines)) \o AdditionalRules(Tail(lines))

\* ig.add(gitignoreText): the rule lines as written, in order
OriginalRules(lines) == lines

\* the matcher parseGitignore returns when the file was read: the original
\* rules first, the additional rules after them
ParsedRules(lines) == OriginalRules(lines) \o AdditionalRules(lines)

\* the matcher of the catch branch: ignore() with no rule
EmptyRules == << >>


(***************************************************************************)
(* The file systems of the model: the entries that may lie under the root  *)
(* folder, in the order readDirectory lists them.  A tree is a set of      *)
(* indices into Candidates that holds the parent of each of its entries.   *)
(***************************************************************************)
Candidates ==
  << [rel |-> <<".git">>,            dir |-> TRUE],
     [rel |-> <<".git", "HEAD">>,    dir |-> FALSE],
     [rel |-> <<".gitignore">>,      dir |-> FALSE],
     [rel |-> <<"..data">>,          dir |-> TRUE],
     [rel |-> <<"..data", "x.txt">>, dir |-> FALSE],
     [rel |-> <<"dist">>,            dir |-> TRUE],
     [rel |-> <<"dist", "b.js">>,    dir |-> FALSE],
     [rel |-> <<"x.txt">>,           dir |-> FALSE],
     [rel |-> <<"dist\\b.js">>,      dir |-> FALSE] >>

ParentOf(p) == SubSeq(p, 1, Len(p) - 1)

IsTree(t) ==
  /\ Cardinality(t) <= MaxTree
  /\ \A i \in t : Len(Candidates[i].rel) > 1 =>
        \E j \in t : /\ Candidates[j].dir
                     /\ Candidates[j].rel = ParentOf(Candidates[i].rel)

\* String.prototype.replace(/\\/g, '/') on one name: a backslash in it becomes
\* a separator
SplitBackslash(name) ==
  IF name = "dist\\b.js" THEN <<"dist", "b.js">> ELSE <<name>>

\* relativePath.replace(/\\/g, '/') (753, 769)
RECURSIVE ForwardSlashes(_)
ForwardSlashes(rel) ==
  IF rel = << >> THEN << >>
  ELSE SplitBackslash(Head(rel)) \o ForwardSlashes(Tail(rel))

\* the names every host can hold: a backslash is a legal character of a
\* file name on POSIX only
PortableNames ==
  { i \in 1..Len(Candidates) : ForwardSlashes(Candidates[i].rel) = Candidates[i].rel }

\* the folders of the build model, and the folders of a POSIX host
Trees == { t \in SUBSET PortableNames : IsTree(t) }

PosixTrees == { t \in SUBSET (1..Len(Candidates)) : IsTree(t) }

\* the folder handed to createZipFromFolder; vscode.Uri.fsPath is absolute
FolderAbsPath == <<"/", "work", RootName>>

\* path.isAbsolute
IsAbsolute(p) == Len(p) > 0 /\ p[1] = "/"

\* path.join(dir, name) for a path under the folder
AbsPathOf(rel) == FolderAbsPath \o rel

\* path.relative(folderAbsPath, p) of a path under the folder
RelativeToFolder(p) == SubSeq(p, Len(FolderAbsPath) + 1, Len(p))

\* path.basename
Basename(p) == <<p[Len(p)]>>

\* vscode.workspace.fs.stat succeeding on folder/rel (fileExists, 642-649)
FileExists(t, rel) == \E i \in t : Candidates[i].rel = rel

\* checkGitFiles (622-635)
CheckGitFiles(t) ==
  [hasGit |-> FileExists(t, <<".git">>),
   hasGitignore |-> FileExists(t, <<".gitignore">>)]

\* vscode.workspace.fs.readDirectory(dir): the children of dir, in order
RECURSIVE ChildrenFrom(_, _, _)
ChildrenFrom(t, dir, i) ==
  IF i > Len(Candidates) THEN << >>
  ELSE (IF i \in t /\ Len(Candidates[i].rel) = Len(dir) + 1
             /\ ParentOf(Candidates[i].rel) = dir
          THEN << Candidates[i] >> ELSE << >>)
       \o ChildrenFrom(t, dir, i + 1)

ReadDirectory(t, dir) == ChildrenFrom(t, dir, 1)

\* getAllFiles (743-784): the directory itself unless it is the root, then
\* its children in order, descending into each directory as it is met.  A
\* directory of `bad` cannot be listed: readDirectory throws before anything
\* is pushed for it, and the catch returns what was gathered so far.
RECURSIVE GetAllFiles(_, _, _)
RECURSIVE WalkEntries(_, _, _)
\* WalkEntries whose loop ends at the first directory that cannot be listed
WalkEntries_StopAtUnreadable(t, entries, bad) ==
  IF entries = << >> THEN << >>
  ELSE LET e == Head(entries)
       IN IF e.dir /\ e.rel \in bad THEN << >>
          ELSE (IF e.dir
                  THEN GetAllFiles(t, e.rel, bad)
                  ELSE << [path |-> AbsPathOf(e.rel), relativePath |-> ForwardSlashes(e.rel),
                           isDirectory |-> FALSE] >>)
               \o WalkEntries(t, Tail(entries), bad)

\* getAllFiles that pushes no entry for a directory
GetAllFiles_NoDirectoryEntry(t, dir, bad) ==
  IF dir \in bad THEN << >>
  ELSE WalkEntries(t, ReadDirectory(t, dir), bad)

WalkEntries(t, entries, bad) ==
  IF entries = << >> THEN << >>
  ELSE LET e == Head(entries)
       IN (IF e.dir
             THEN GetAllFiles(t, e.rel, bad)
             ELSE << [path |-> AbsPathOf(e.rel), relativePath |-> ForwardSlashes(e.rel),
                      isDirectory |-> FALSE] >>)
          \o WalkEntries(t, Tail(entries), bad)

GetAllFiles(t, dir, bad) ==
  IF dir \in bad THEN << >>
  ELSE (IF dir # << >>
          THEN << [path |-> AbsPathOf(dir), relativePath |-> ForwardSlashes(dir),
                   isDirectory |-> TRUE] >>
          ELSE << >>)
       \o WalkEntries(t, ReadDirectory(t, dir), bad)

\* the directories of a tree, the root (<< >>) among them
DirectoriesOf(t) == { << >> } \cup { Candidates[i].rel : i \in { j \in t : Candidates[j].dir } }

\* the outcomes of readDirectory in one enumeration: every directory listed,
\* or one of them failing
UnreadableChoices(t) == { {} } \cup { {d} : d \in DirectoriesOf(t) }

(***************************************************************************)
(* processPath (838-892), the closure createZipFromFolder maps every       *)
(* enumerated path with.                                                   *)
(***************************************************************************)
Modes == {"only", "with", "custom"}
GitModes == {"exclude_git", "respect_gitignore", "include_all"}

\* the switch of lines 857-891, reached only by a path that is not absolute
ProcessPathByMode(mode, customName, originalPath) ==
  LET relativePath == RelativeToFolder(originalPath)
  IN CASE mode = "only" -> relativePath
       [] mode = "custom" ->
            <<IF customName # "" THEN customName ELSE RootName>> \o relativePath
       [] OTHER -> <<RootName>> \o relativePath

ProcessPath(mode, customName, originalPath) ==
  IF IsAbsolute(originalPath)
    THEN LET relativePath == RelativeToFolder(originalPath)
         IN IF StartsWithDotDot(relativePath) \/ StartsWithDrive(relativePath)
              THEN Basename(originalPath)
              ELSE relativePath
    ELSE ProcessPathByMode(mode, customName, originalPath)

(***************************************************************************)
(* The JSZip container: the calls made on it, in order, and the entries    *)
(* they leave.  zip.file(path) replaces an entry of the same path;         *)
(* zip.folder(path) and the parents of any added path are directory        *)
(* entries, created once.                                                  *)
(***************************************************************************)
ProperPrefixes(p) == { SubSeq(p, 1, k) : k \in 1..(Len(p) - 1) }

LastFileCall(calls, path) ==
  LET is == { i \in 1..Len(calls) : ~calls[i].dir /\ calls[i].path = path }
  IN calls[CHOOSE i \in is : \A j \in is : j <= i]

FirstFolderCall(calls, path) ==
  LET is == { i \in 1..Len(calls) : calls[i].dir /\ calls[i].path = path }
  IN calls[CHOOSE i \in is : \A j \in is : i <= j]

ArchiveEntries(calls) ==
  LET filePaths == { calls[i].path : i \in { j \in 1..Len(calls) : ~calls[j].dir } }
      folderPaths == { calls[i].path : i \in { j \in 1..Len(calls) : calls[j].dir } }
      parentPaths == UNION { ProperPrefixes(calls[i].path) : i \in 1..Len(calls) }
  IN { [path |-> q, dir |-> FALSE, src |-> LastFileCall(calls, q).src] : q \in filePaths }
     \cup { [path |-> q, dir |-> TRUE, src |-> FirstFolderCall(calls, q).src] : q \in folderPaths }
     \cup { [path |-> q, dir |-> TRUE, src |-> q] : q \in parentPaths \ folderPaths }

(***************************************************************************)
(* State.                                                                  *)
(***************************************************************************)
VARIABLES
  tree,             \* the entries under the root folder (indices of Candidates)
  gitignoreText,    \* the rule lines of the root's .gitignore
  pc,               \* where the run is
  mode,             \* options.mode
  customName,       \* options.customName ("" when not given)
  gitExclusionMode, \* options.gitExclusionMode
  outputPath,       \* where the zip goes: "none", "current", "parent", "custom"
  outputDirExists,  \* whether the directory of outputPath exists
  createdDirs,      \* the directories the run has created
  destFile,         \* the destination file: [exists, entries]
  destWrites,       \* number of writes of the destination
  token,            \* progress.token: "absent", "clear" or "requested"
  gitFiles,         \* the result of checkGitFiles
  ignoreRules,      \* [built, rules]: null, or the matcher of parseGitignore
  consulted,        \* number of ignoreRules.ignores() calls
  allFiles,         \* the result of getAllFiles
  idx,              \* the loop's position in allFiles
  zipCalls,         \* the calls made on the JSZip container
  processed,
  skipped,
  warnings,         \* number of showWarningMessage calls
  infos,            \* number of "Skipped n files" messages
  error,            \* "" or the error the run threw
  probe,            \* the path last handed to ignores() by the matcher probe
  verdict,          \* what ignores() answered
  ignoreRead,       \* how the read of .gitignore ended: "none", "ok", "failed"
  unreadable,       \* the directories readDirectory failed on in getAllFiles
  mapped,           \* what processPath returned to the path probe
  zipFileData,      \* the loaded archive: its entries, in the order of its files object
  command,          \* the extraction asked for: msg.command, or "extract"
  uriList,          \* the names selected for selective extraction
  cursor,           \* the extraction loop's position
  targetDirs,       \* the directories that exist under the extraction target
  targetFiles,      \* the files written under the extraction target
  attempted,        \* the entry names whose extraction was started
  failedEntries,    \* the entry names whose extraction failed
  reported,         \* the entry names whose failure was logged or shown
  runs,             \* the local state of two concurrent createZipFromFolder runs
  successShown,     \* whether 'Successfully extracted all files.' was shown
  pendingWrites,    \* the writeFile calls of an extraction that have not settled
  loadState,        \* the editor's archive load: "none", "pending", "loaded", "failed"
  gz                \* the state of a gzipFile call

vars == << tree, gitignoreText, pc, mode, customName, gitExclusionMode,
           outputPath, outputDirExists, createdDirs, destFile, destWrites,
           token, gitFiles, ignoreRules, consulted, allFiles, idx, zipCalls,
           processed, skipped, warnings, infos, error, probe, verdict,
           ignoreRead, unreadable, mapped, zipFileData, command, uriList,
           cursor, targetDirs, targetFiles, attempted, failedEntries, reported,
           runs, successShown, pendingWrites, loadState, gz >>

fsVars == << tree, gitignoreText >>
optVars == << mode, customName, gitExclusionMode >>
outVars == << outputPath, outputDirExists, createdDirs >>
destVars == << destFile, destWrites >>
gitVars == << gitFiles, ignoreRules >>
loopVars == << allFiles, idx, zipCalls, processed, skipped, consulted >>
msgVars == << warnings, infos >>
probeVars == << probe, verdict >>
ioVars == << ignoreRead, unreadable >>
exVars == << zipFileData, command, uriList, cursor, targetDirs, targetFiles,
             attempted, failedEntries, reported, successShown, pendingWrites >>
lateVars == << loadState, gz >>
otherVars == << mapped, exVars, runs, lateVars >>

NoRules == [built |-> FALSE, rules |-> << >>]

\* no editor open, no gzipFile call
NoLate == loadState = "none" /\ gz = << >>

\* no archive loaded, no extraction asked for
NoExtraction ==
  /\ zipFileData = << >> /\ command = "none" /\ uriList = << >> /\ cursor = 0
  /\ targetDirs = {} /\ targetFiles = {}
  /\ attempted = {} /\ failedEntries = {} /\ reported = {}
  /\ successShown = FALSE /\ pendingWrites = {}
NoDest == [exists |-> FALSE, entries |-> {}]

(***************************************************************************)
(* The rule lines of the model.                                            *)
(***************************************************************************)
Rule(neg, lead, segs, trail) ==
  [neg |-> neg, lead |-> lead, segs |-> segs, trail |-> trail]

\* the rule lines a build's .gitignore is made of
BuildRuleLines ==
  { Rule(FALSE, FALSE, <<"dist">>, FALSE),
    Rule(FALSE, TRUE, <<"dist">>, TRUE) }

\* the rule lines handed to the matcher probe
RuleBodies == { <<"dist">>, <<"*.txt">>, <<"dist", "b.js">> }
ProbeRuleLines ==
  { Rule(n, l, b, t) : n \in BOOLEAN, l \in BOOLEAN, b \in RuleBodies, t \in BOOLEAN }

SeqsUpTo(S, n) == UNION { [1..k -> S] : k \in 0..n }

ProbePaths == { Candidates[i].rel : i \in PortableNames }

(***************************************************************************)
(* createZipFromFolder (797-1074), one action per stretch between awaits.  *)
(***************************************************************************)
Init ==
  /\ tree \in Trees
  /\ gitignoreText \in
       IF FileExists(tree, <<".gitignore">>)
         THEN SeqsUpTo(BuildRuleLines, MaxBuildRules) ELSE { << >> }
  /\ pc = "idle"
  /\ mode = "with" /\ customName = "" /\ gitExclusionMode = "include_all"
  /\ outputPath = "none" /\ outputDirExists = FALSE /\ createdDirs = {}
  /\ destFile = NoDest /\ destWrites = 0
  /\ token = "absent"
  /\ gitFiles = [hasGit |-> FALSE, hasGitignore |-> FALSE]
  /\ ignoreRules = NoRules /\ consulted = 0
  /\ allFiles = << >> /\ idx = 0 /\ zipCalls = << >>
  /\ processed = 0 /\ skipped = 0 /\ warnings = 0 /\ infos = 0
  /\ error = ""
  /\ probe = << >> /\ verdict = FALSE
  /\ ignoreRead = "none" /\ unreadable = {}
  /\ mapped = << >>
  /\ NoExtraction
  /\ runs = << >>
  /\ NoLate

\* the call, with its options (797-835); withProgress hands the task a token
\* or not
Start ==
  /\ pc = "idle"
  /\ \E m \in Modes, cn \in CustomNames, g \in GitModes, tk \in {"absent", "clear"} :
       /\ (m # "custom") => cn = ""
       /\ mode' = m /\ customName' = cn /\ gitExclusionMode' = g
       /\ token' = tk
  /\ pc' = "resolve"
  /\ UNCHANGED << fsVars, outVars, destVars, gitVars, loopVars, msgVars, error, probeVars,
                  ioVars, otherVars >>

\* the user presses Cancel on the notification
Cancel ==
  /\ pc \in {"resolve", "checkgit", "enumerate", "loop", "write"}
  /\ token = "clear"
  /\ token' = "requested"
  /\ UNCHANGED << fsVars, pc, optVars, outVars, destVars, gitVars, loopVars, msgVars,
                  error, probeVars, ioVars, otherVars >>

\* progress.token && progress.token.isCancellationRequested (1007)
CancellationSeen == token = "requested"

Throw(msg) ==
  /\ pc' = "failed"
  /\ error' = msg

\* the output path and its directory (905-977).  folderStyle is the shape of
\* folderUri.fsPath; customDir says whether options.customPath was given and
\* whether its directory exists; mkdirOk is the outcome of createDirectory,
\* whose failure is logged and swallowed (968-970).
ResolveOutput ==
  /\ pc = "resolve"
  /\ \E folderStyle \in {"posix", "drive"},
        outputMode \in {"current", "parent", "custom"},
        customDir \in {"noinput", "existing", "fresh"},
        mkdirOk \in BOOLEAN :
       /\ (outputMode # "custom") => customDir = "existing"
       /\ (customDir # "fresh") => mkdirOk
       /\ IF outputMode = "custom" /\ customDir = "noinput"
            THEN /\ Throw("No output path specified")
                 /\ UNCHANGED outVars
          ELSE IF outputMode = "current" /\ folderStyle = "posix"
            THEN /\ Throw("Invalid path format")
                 /\ UNCHANGED outVars
          ELSE /\ outputPath' = outputMode
               /\ outputDirExists' = (customDir = "existing" \/ mkdirOk)
               /\ createdDirs' = IF customDir = "fresh" /\ mkdirOk
                                   THEN {"outputDir"} ELSE {}
               /\ pc' = "checkgit"
               /\ error' = error
  /\ UNCHANGED << fsVars, optVars, destVars, token, gitVars, loopVars, msgVars, probeVars,
                  ioVars, otherVars >>

\* parseGitignore without its catch: the rules, read or not
ParseGitignore_NoCatch(lines, readOk) ==
  [built |-> TRUE, rules |-> ParsedRules(lines)]

\* parseGitignore (656-734): the matcher of the rule file, or an empty matcher
\* when the file cannot be read
ParseGitignore(lines, readOk) ==
  [built |-> TRUE, rules |-> IF readOk THEN ParsedRules(lines) ELSE EmptyRules]

\* UsesGitFiles without its test of the mode
UsesGitFiles_Always(g) == g \in GitModes

\* whether createZipFromFolder looks for .git and .gitignore at all (986)
UsesGitFiles(g) == g = "exclude_git" \/ g = "respect_gitignore"

\* lines 981-992
CheckGit ==
  /\ pc = "checkgit"
  /\ IF UsesGitFiles(gitExclusionMode)
       THEN /\ gitFiles' = CheckGitFiles(tree)
            /\ IF gitFiles'.hasGitignore
                 THEN \E readOk \in BOOLEAN :
                        /\ ignoreRules' = ParseGitignore(gitignoreText, readOk)
                        /\ ignoreRead' = IF readOk THEN "ok" ELSE "failed"
                 ELSE /\ ignoreRules' = ignoreRules
                      /\ ignoreRead' = ignoreRead
       ELSE UNCHANGED << gitVars, ignoreRead >>
  /\ pc' = "enumerate"
  /\ UNCHANGED << fsVars, optVars, outVars, destVars, token, loopVars, msgVars,
                  error, probeVars, unreadable, otherVars >>

\* lines 995-1004
Enumerate ==
  /\ pc = "enumerate"
  /\ \E bad \in UnreadableChoices(tree) :
       /\ allFiles' = GetAllFiles(tree, << >>, bad)
       /\ unreadable' = bad
  /\ idx' = 1
  /\ pc' = "loop"
  /\ UNCHANGED << fsVars, optVars, outVars, destVars, token, gitVars, zipCalls,
                  processed, skipped, consulted, msgVars, error, probeVars,
                  ignoreRead, otherVars >>

\* NameExcluded applied under respect_gitignore as well
NameExcluded_AnyGitMode(g, gf, rel) ==
  /\ g # "include_all"
  /\ \/ gf.hasGit /\ (rel = <<".git">> \/ (Len(rel) > 1 /\ rel[1] = ".git"))
     \/ gf.hasGitignore /\ rel = <<".gitignore">>

\* the explicit exclusion of .git and .gitignore (1017-1026)
NameExcluded(g, gf, rel) ==
  /\ g = "exclude_git"
  /\ \/ gf.hasGit /\ (rel = <<".git">> \/ (Len(rel) > 1 /\ rel[1] = ".git"))
     \/ gf.hasGitignore /\ rel = <<".gitignore">>

\* whether line 1029 asks the matcher about an entry the name check kept
AsksMatcher(g, ig) == g # "include_all" /\ ig.built

\* the exclusion by the rules (1029)
RuleExcluded(g, ig, rel) == AsksMatcher(g, ig) /\ Ignores(ig.rules, rel)

\* mode === 'flat' (1047-1049)
FlatPath(m, zipPath) == IF m = "flat" THEN Basename(zipPath) ELSE zipPath

\* one pass of the loop (1006-1058); readOk is the outcome of readFile, whose
\* failure nothing in the loop catches
ProcessEntry ==
  /\ pc = "loop"
  /\ idx <= Len(allFiles)
  /\ LET file == allFiles[idx]
         rel == file.relativePath
         zipPath == ProcessPath(mode, customName, file.path)
     IN IF CancellationSeen
          THEN /\ Throw("Compression cancelled")
               /\ UNCHANGED loopVars
        ELSE IF NameExcluded(gitExclusionMode, gitFiles, rel)
          THEN /\ skipped' = skipped + 1
               /\ idx' = idx + 1
               /\ UNCHANGED << pc, error, allFiles, zipCalls, processed, consulted >>
        ELSE IF RuleExcluded(gitExclusionMode, ignoreRules, rel)
          THEN /\ skipped' = skipped + 1
               /\ consulted' = consulted + 1
               /\ idx' = idx + 1
               /\ UNCHANGED << pc, error, allFiles, zipCalls, processed >>
        ELSE /\ consulted' = IF AsksMatcher(gitExclusionMode, ignoreRules)
                               THEN consulted + 1 ELSE consulted
             /\ IF file.isDirectory
                  THEN /\ zipCalls' = Append(zipCalls,
                                        [path |-> zipPath, dir |-> TRUE, src |-> rel])
                       /\ processed' = processed + 1
                       /\ idx' = idx + 1
                       /\ UNCHANGED << pc, error, allFiles, skipped >>
                  ELSE \E readOk \in BOOLEAN :
                         IF readOk
                           THEN /\ zipCalls' = Append(zipCalls,
                                                 [path |-> FlatPath(mode, zipPath),
                                                  dir |-> FALSE, src |-> rel])
                                /\ processed' = processed + 1
                                /\ idx' = idx + 1
                                /\ UNCHANGED << pc, error, allFiles, skipped >>
                           ELSE /\ Throw("readFile failed")
                                /\ UNCHANGED << allFiles, idx, zipCalls, processed, skipped >>
  /\ UNCHANGED << fsVars, optVars, outVars, destVars, token, gitVars, msgVars, probeVars,
                  ioVars, otherVars >>

\* Finalize that may leave the loop before its last pass
Finalize_AtAnyPass ==
  /\ pc = "loop"
  /\ infos' = IF skipped > 0 THEN infos + 1 ELSE infos
  /\ pc' = "write"
  /\ UNCHANGED << fsVars, optVars, outVars, destVars, token, gitVars, loopVars,
                  warnings, error, probeVars, ioVars, otherVars >>

\* Finalize that shows no skipped count
Finalize_Silent ==
  /\ pc = "loop"
  /\ idx > Len(allFiles)
  /\ pc' = "write"
  /\ UNCHANGED << fsVars, optVars, outVars, destVars, token, gitVars, loopVars,
                  msgVars, error, probeVars, ioVars, otherVars >>

\* after the loop (1060-1066): the skipped count is shown, the container is
\* serialized
Finalize ==
  /\ pc = "loop"
  /\ idx > Len(allFiles)
  /\ infos' = IF skipped > 0 THEN infos + 1 ELSE infos
  /\ pc' = "write"
  /\ UNCHANGED << fsVars, optVars, outVars, destVars, token, gitVars, loopVars,
                  warnings, error, probeVars, ioVars, otherVars >>

\* vscode.workspace.fs.writeFile(outputPath, zipContent) (1067-1069); a write
\* that succeeds leaves the file in its directory
WriteDestination ==
  /\ pc = "write"
  /\ \E writeOk \in BOOLEAN :
       IF writeOk
         THEN /\ destFile' = [exists |-> TRUE, entries |-> ArchiveEntries(zipCalls)]
              /\ destWrites' = destWrites + 1
              /\ outputDirExists' = TRUE
              /\ createdDirs' = IF outputDirExists THEN createdDirs
                                  ELSE createdDirs \cup {"outputDir"}
              /\ pc' = "done"
              /\ error' = error
         ELSE /\ Throw("writeFile failed")
              /\ UNCHANGED << destVars, outputDirExists, createdDirs >>
  /\ UNCHANGED << fsVars, optVars, outputPath, token, gitVars, loopVars, msgVars, probeVars,
                  ioVars, otherVars >>

Next ==
  \/ Start
  \/ Cancel
  \/ ResolveOutput
  \/ CheckGit
  \/ Enumerate
  \/ ProcessEntry
  \/ Finalize
  \/ WriteDestination

Spec == Init /\ [][Next]_vars

(***************************************************************************)
(* The matcher probe: parseGitignore on a rule file that was read, then    *)
(* ignores() on one relative path.                                         *)
(***************************************************************************)
IgnoreInit ==
  /\ tree = {3}
  /\ gitignoreText \in SeqsUpTo(ProbeRuleLines, MaxRules)
  /\ pc = "ig_start"
  /\ mode = "with" /\ customName = "" /\ gitExclusionMode = "respect_gitignore"
  /\ outputPath = "none" /\ outputDirExists = FALSE /\ createdDirs = {}
  /\ destFile = NoDest /\ destWrites = 0
  /\ token = "absent"
  /\ gitFiles = [hasGit |-> FALSE, hasGitignore |-> TRUE]
  /\ ignoreRules = NoRules /\ consulted = 0
  /\ allFiles = << >> /\ idx = 0 /\ zipCalls = << >>
  /\ processed = 0 /\ skipped = 0 /\ warnings = 0 /\ infos = 0
  /\ error = ""
  /\ probe = << >> /\ verdict = FALSE
  /\ ignoreRead = "none" /\ unreadable = {}
  /\ mapped = << >>
  /\ NoExtraction
  /\ runs = << >>
  /\ NoLate

\* parseGitignore(gitignorePath), the file readable (658-729)
IgParse ==
  /\ pc = "ig_start"
  /\ ignoreRules' = ParseGitignore(gitignoreText, TRUE)
  /\ ignoreRead' = "ok"
  /\ pc' = "ig_parsed"
  /\ UNCHANGED << fsVars, optVars, outVars, destVars, token, gitFiles, loopVars,
                  msgVars, error, probeVars, unreadable, otherVars >>

\* ignoreRules.ignores(relativePath) (1029)
IgProbe ==
  /\ pc = "ig_parsed"
  /\ \E p \in ProbePaths :
       /\ probe' = p
       /\ verdict' = Ignores(ignoreRules.rules, p)
  /\ consulted' = consulted + 1
  /\ pc' = "ig_probed"
  /\ UNCHANGED << fsVars, optVars, outVars, destVars, token, gitVars, allFiles, idx,
                  zipCalls, processed, skipped, msgVars, error, ioVars, otherVars >>

IgnoreNext == IgParse \/ IgProbe

IgnoreSpec == IgnoreInit /\ [][IgnoreNext]_vars

(***************************************************************************)
(* The files object of a JSZip container, in the order of its keys.        *)
(* file() and folder() first add the missing parent folders, parents       *)
(* first; a file() of a name that is present replaces it in place.         *)
(***************************************************************************)
\* the position of the entry keyed by a name (with its trailing slash when
\* it is a folder), 0 when there is none
IndexOfEntry(files, name, dir) ==
  LET is == { i \in 1..Len(files) : files[i].name = name /\ files[i].dir = dir }
  IN IF is = {} THEN 0 ELSE CHOOSE i \in is : TRUE

RECURSIVE FolderAdd(_, _)
FolderAdd(files, name) ==
  IF name = << >> \/ IndexOfEntry(files, name, TRUE) # 0 THEN files
  ELSE Append(FolderAdd(files, ParentOf(name)),
              [name |-> name, dir |-> TRUE, content |-> << >>])

FileAdd(files, name, content) ==
  LET withParents == FolderAdd(files, ParentOf(name))
      at == IndexOfEntry(withParents, name, FALSE)
      entry == [name |-> name, dir |-> FALSE, content |-> content]
  IN IF at = 0 THEN Append(withParents, entry)
     ELSE [withParents EXCEPT ![at] = entry]

RECURSIVE ZipFilesFrom(_, _, _)
ZipFilesFrom(calls, i, files) ==
  IF i > Len(calls) THEN files
  ELSE ZipFilesFrom(calls, i + 1,
         IF calls[i].dir THEN FolderAdd(files, calls[i].path)
         ELSE FileAdd(files, calls[i].path, calls[i].src))

\* the files object the calls leave; a file's content is named by the source
\* file it was read from
ZipFiles(calls) == ZipFilesFrom(calls, 1, << >>)

\* zip.generateAsync: one record per entry, a folder's name written with a
\* trailing slash and no data
GenerateAsync(files) ==
  [ i \in 1..Len(files) |->
      [fileName |-> files[i].name, slash |-> files[i].dir,
       data |-> IF files[i].dir THEN << >> ELSE files[i].content] ]

\* zip.loadAsync: a record whose name ends in a slash is a folder
LoadAsync(bytes) ==
  [ i \in 1..Len(bytes) |->
      [name |-> bytes[i].fileName, dir |-> bytes[i].slash,
       content |-> bytes[i].data] ]

\* the calls the loop of createZipFromFolder (1006-1058) makes on the
\* container in a run that is not cancelled and whose reads succeed
RECURSIVE LoopCalls(_, _, _, _, _, _)
LoopCalls(files, m, cn, g, gf, ig) ==
  IF files = << >> THEN << >>
  ELSE LET file == Head(files)
           rel == file.relativePath
           zipPath == ProcessPath(m, cn, file.path)
       IN (IF NameExcluded(g, gf, rel) \/ RuleExcluded(g, ig, rel)
             THEN << >>
             ELSE << [path |-> IF file.isDirectory THEN zipPath
                                ELSE FlatPath(m, zipPath),
                      dir |-> file.isDirectory, src |-> rel] >>)
          \o LoopCalls(Tail(files), m, cn, g, gf, ig)

\* the archive createZipFromFolder writes for a tree with the mode 'with' and
\* include_all, as the editor loads it
BuiltArchive(t) ==
  LoadAsync(GenerateAsync(ZipFiles(
    LoopCalls(GetAllFiles(t, << >>, {}), "with", "", "include_all",
              [hasGit |-> FALSE, hasGitignore |-> FALSE], NoRules))))

(***************************************************************************)
(* Extraction: the extract-all-folder, extract-all-here and                *)
(* selective-extract messages of ZipEdit.resolveCustomEditor               *)
(* (unnamed/part_002 205-266) and cmds.extractCommand (cmds.js 59-95).     *)
(***************************************************************************)
\* largest number of names in a selection
MaxSelection == 2
\* largest number of entries of an archive that no build of the model made
MaxForeign == 2

\* archives made elsewhere: files stored without their folders, or with a
\* folder entry after the file it holds
ForeignEntries ==
  { [name |-> <<"a", "b", "c.txt">>, dir |-> FALSE, content |-> <<"a", "b", "c.txt">>],
    [name |-> <<"a", "d.txt">>, dir |-> FALSE, content |-> <<"a", "d.txt">>],
    [name |-> <<"a">>, dir |-> TRUE, content |-> << >>] }

ForeignArchives ==
  { z \in SeqsUpTo(ForeignEntries, MaxForeign) :
      /\ Len(z) > 0
      /\ \A i, j \in 1..Len(z) : z[i] = z[j] => i = j }

\* a name no archive of the model holds
AbsentName == <<"ghost.txt">>

Commands ==
  {"extract-all-folder", "extract-all-here", "selective-extract", "extract"}

\* the folder under the chosen directory the entries go to: the zip's name
\* without .zip (241-242), nothing (extract here), or the zip's name followed
\* by config.unzippedSuffix (227, cmds.js 84-88)
DestPrefix(cmd) ==
  CASE cmd = "extract-all-folder" -> <<"out">>
    [] cmd = "extract-all-here" -> << >>
    [] OTHER -> <<"out.zip_unzipped">>

\* Object.values(zipFileData.files).filter(f => !f.dir) (246)
RECURSIVE FilesOnly(_)
FilesOnly(files) ==
  IF files = << >> THEN << >>
  ELSE (IF Head(files).dir THEN << >> ELSE << Head(files) >>) \o FilesOnly(Tail(files))

\* vscode.workspace.fs.createDirectory: the directory and its missing parents
MkdirP(dirs, d) == dirs \cup { SubSeq(d, 1, k) : k \in 1..Len(d) }

\* writeFile that writes into whatever directories there are
WriteFileDirs_NoParents(dirs, p) == dirs

\* vscode.workspace.fs.writeFile: the workbench file service makes the missing
\* parents of the file, then writes it
WriteFileDirs(dirs, p) == MkdirP(dirs, ParentOf(p))

PutFile(files, p, content) ==
  { f \in files : f.path # p } \cup { [path |-> p, content |-> content] }

ExtractInit ==
  /\ \/ /\ tree \in Trees
        /\ zipFileData = BuiltArchive(tree)
     \/ /\ tree = {}
        /\ zipFileData \in ForeignArchives
  /\ gitignoreText = << >>
  /\ pc = "ex_idle"
  /\ mode = "with" /\ customName = "" /\ gitExclusionMode = "include_all"
  /\ outputPath = "none" /\ outputDirExists = FALSE /\ createdDirs = {}
  /\ destFile = NoDest /\ destWrites = 0
  /\ token = "absent"
  /\ gitFiles = [hasGit |-> FALSE, hasGitignore |-> FALSE]
  /\ ignoreRules = NoRules /\ consulted = 0
  /\ allFiles = << >> /\ idx = 0 /\ zipCalls = << >>
  /\ processed = 0 /\ skipped = 0 /\ warnings = 0 /\ infos = 0
  /\ error = ""
  /\ probe = << >> /\ verdict = FALSE
  /\ ignoreRead = "none" /\ unreadable = {}
  /\ mapped = << >>
  /\ command = "none" /\ uriList = << >> /\ cursor = 0
  /\ targetDirs = {} /\ targetFiles = {}
  /\ attempted = {} /\ failedEntries = {} /\ reported = {}
  /\ successShown = FALSE /\ pendingWrites = {}
  /\ runs = << >>
  /\ loadState = "loaded" /\ gz = << >>

buildVars == << fsVars, optVars, outVars, destVars, token, gitVars, loopVars,
                msgVars, probeVars, ioVars, mapped, runs, lateVars >>

\* the names the webview can send as selected: the archive's files, and a
\* name the archive does not hold
SelectableNames ==
  { zipFileData[i].name : i \in { j \in 1..Len(zipFileData) : ~zipFileData[j].dir } }
    \cup { AbsentName }

\* a message of the webview arrives, or the extract command is run.  An empty
\* selection is refused (210-213).  cmds.js names JSZip without declaring it:
\* new JSZip() (77) throws unless the bundle supplies the name, and the catch
\* of line 92 shows the error; so does a zip that cannot be read or loaded.
ExStart ==
  /\ pc = "ex_idle"
  /\ \E cmd \in Commands, sel \in SeqsUpTo(SelectableNames, MaxSelection),
        jszipBound \in BOOLEAN, loadOk \in BOOLEAN :
       /\ (cmd # "selective-extract") => sel = << >>
       /\ (cmd # "extract") => (jszipBound /\ loadOk)
       /\ (~jszipBound) => loadOk
       /\ command' = cmd
       /\ uriList' = sel
       /\ IF cmd = "selective-extract" /\ sel = << >>
            THEN /\ pc' = "ex_done"
                 /\ error' = "No files are selected."
                 /\ cursor' = cursor
          ELSE IF ~jszipBound
            THEN /\ pc' = "ex_done"
                 /\ error' = "Failed to extract: JSZip is not defined"
                 /\ cursor' = cursor
          ELSE IF ~loadOk
            THEN /\ pc' = "ex_done"
                 /\ error' = "Failed to extract"
                 /\ cursor' = cursor
          ELSE /\ pc' = "ex_loop"
               /\ error' = error
               /\ cursor' = 1
  /\ UNCHANGED << buildVars, zipFileData, targetDirs, targetFiles, attempted,
                  failedEntries, reported, successShown, pendingWrites >>

\* one pass of the loop of extract-all (249-261): the entry's bytes, the
\* parent directory, the file; .catch shows whichever of them failed
ExtractAllEntry ==
  /\ pc = "ex_loop"
  /\ command \in {"extract-all-folder", "extract-all-here"}
  /\ cursor <= Len(FilesOnly(zipFileData))
  /\ LET file == FilesOnly(zipFileData)[cursor]
         destPath == DestPrefix(command) \o file.name
         fileParent == ParentOf(destPath)
     IN \E outcome \in {"ok", "async", "createDirectory", "writeFile"} :
          /\ attempted' = attempted \cup { file.name }
          /\ targetDirs' = IF outcome \in {"ok", "writeFile"}
                             THEN MkdirP(targetDirs, fileParent) ELSE targetDirs
          /\ targetFiles' = IF outcome = "ok"
                              THEN PutFile(targetFiles, destPath, file.content)
                              ELSE targetFiles
          /\ failedEntries' = IF outcome = "ok" THEN failedEntries
                                ELSE failedEntries \cup { file.name }
          /\ reported' = IF outcome = "ok" THEN reported
                           ELSE reported \cup { file.name }
  /\ cursor' = cursor + 1
  /\ UNCHANGED << buildVars, pc, error, zipFileData, command, uriList,
                  successShown, pendingWrites >>

\* lines 263-264
ExtractAllDone ==
  /\ pc = "ex_loop"
  /\ command \in {"extract-all-folder", "extract-all-here"}
  /\ cursor > Len(FilesOnly(zipFileData))
  /\ successShown' = TRUE
  /\ pc' = "ex_done"
  /\ UNCHANGED << buildVars, error, zipFileData, command, uriList, cursor,
                  targetDirs, targetFiles, attempted, failedEntries, reported,
                  pendingWrites >>

\* one pass of the loop of selective-extract (220-233).  A name that is not a
\* key of zipFileData.files gives undefined, and .async of undefined throws:
\* the task's promise rejects.  A read failure is logged (229-231).  After a
\* read, writeFile is called (227) and its promise dropped: the pass ends
\* with the write still in flight.
SelectiveEntry ==
  /\ pc = "ex_loop"
  /\ command = "selective-extract"
  /\ cursor <= Len(uriList)
  /\ LET name == uriList[cursor]
         at == IndexOfEntry(zipFileData, name, FALSE)
         destPath == DestPrefix(command) \o name
     IN IF at = 0
          THEN /\ pc' = "ex_failed"
               /\ error' = "TypeError"
               /\ UNCHANGED << cursor, attempted, failedEntries, reported,
                               pendingWrites >>
          ELSE /\ \E outcome \in {"ok", "async"} :
                    /\ attempted' = attempted \cup { name }
                    /\ pendingWrites' =
                         IF outcome = "ok"
                           THEN pendingWrites \cup
                                  { [name |-> name, path |-> destPath,
                                     content |-> zipFileData[at].content] }
                           ELSE pendingWrites
                    /\ failedEntries' = IF outcome = "ok" THEN failedEntries
                                          ELSE failedEntries \cup { name }
                    /\ reported' = IF outcome = "async"
                                     THEN reported \cup { name } ELSE reported
               /\ cursor' = cursor + 1
               /\ UNCHANGED << pc, error >>
  /\ UNCHANGED << buildVars, zipFileData, command, uriList, targetDirs,
                  targetFiles, successShown >>

\* a writeFile call of line 227 settles, at any time after it was issued:
\* nothing waits for it and nothing handles its rejection
WriteSettles ==
  /\ pc \in {"ex_loop", "ex_done", "ex_failed"}
  /\ \E w \in pendingWrites :
       \E ok \in BOOLEAN :
         /\ pendingWrites' = pendingWrites \ { w }
         /\ targetDirs' = IF ok THEN WriteFileDirs(targetDirs, w.path)
                            ELSE targetDirs
         /\ targetFiles' = IF ok THEN PutFile(targetFiles, w.path, w.content)
                             ELSE targetFiles
         /\ failedEntries' = IF ok THEN failedEntries
                               ELSE failedEntries \cup { w.name }
  /\ UNCHANGED << buildVars, pc, error, zipFileData, command, uriList, cursor,
                  attempted, reported, successShown >>

\* line 234
SelectiveDone ==
  /\ pc = "ex_loop"
  /\ command = "selective-extract"
  /\ cursor > Len(uriList)
  /\ pc' = "ex_done"
  /\ UNCHANGED << buildVars, error, exVars >>

\* one pass of the loop of extractCommand (cmds.js 81-91); the try of line 76
\* encloses the whole loop, so the catch of line 92 ends it
CommandEntry ==
  /\ pc = "ex_loop"
  /\ command = "extract"
  /\ cursor <= Len(zipFileData)
  /\ LET file == zipFileData[cursor]
         destPath == DestPrefix(command) \o file.name
     IN IF file.dir
          THEN /\ cursor' = cursor + 1
               /\ UNCHANGED << pc, error, targetDirs, targetFiles, attempted,
                               failedEntries, reported >>
          ELSE \E outcome \in {"ok", "async", "writeFile"} :
                 /\ attempted' = attempted \cup { file.name }
                 /\ IF outcome = "ok"
                      THEN /\ targetDirs' = WriteFileDirs(targetDirs, destPath)
                           /\ targetFiles' = PutFile(targetFiles, destPath, file.content)
                           /\ cursor' = cursor + 1
                           /\ UNCHANGED << pc, error, failedEntries, reported >>
                      ELSE /\ failedEntries' = failedEntries \cup { file.name }
                           /\ reported' = reported \cup { file.name }
                           /\ pc' = "ex_done"
                           /\ error' = "Failed to extract"
                           /\ UNCHANGED << cursor, targetDirs, targetFiles >>
  /\ UNCHANGED << buildVars, zipFileData, command, uriList, successShown,
                  pendingWrites >>

CommandDone ==
  /\ pc = "ex_loop"
  /\ command = "extract"
  /\ cursor > Len(zipFileData)
  /\ pc' = "ex_done"
  /\ UNCHANGED << buildVars, error, exVars >>

ExtractNext ==
  \/ ExStart
  \/ ExtractAllEntry
  \/ ExtractAllDone
  \/ SelectiveEntry
  \/ SelectiveDone
  \/ WriteSettles
  \/ CommandEntry
  \/ CommandDone

ExtractSpec == ExtractInit /\ [][ExtractNext]_vars

(***************************************************************************)
(* The path probe: processPath (838-892) on the path of one enumerated     *)
(* entry, under each naming mode.                                          *)
(***************************************************************************)
\* deepest relative path handed to the path probe
MaxDepth == 2

\* the names an entry's path is made of: one beginning with two dots, one
\* beginning like a drive letter (legal in a POSIX file name), two plain ones
PathNames == {"..data", "c:", "dist", "x.txt"}

PathProbes == UNION { [1..k -> PathNames] : k \in 1..MaxDepth }

\* path.sep
PathSep(platform) == IF platform = "win32" THEN "\\" ELSE "/"

\* the separator of what processPath returns: path.sep replaced by
\* path.posix.sep for an absolute path (850), path.sep joined in by the
\* switch (873, 887)
ProcessPathSep(platform, originalPath) ==
  IF IsAbsolute(originalPath) THEN "/" ELSE PathSep(platform)

PathInit ==
  /\ probe \in PathProbes
  /\ mode \in Modes
  /\ customName \in CustomNames
  /\ (mode # "custom") => customName = ""
  /\ pc = "pp_start"
  /\ tree = {} /\ gitignoreText = << >>
  /\ gitExclusionMode = "include_all"
  /\ outputPath = "none" /\ outputDirExists = FALSE /\ createdDirs = {}
  /\ destFile = NoDest /\ destWrites = 0
  /\ token = "absent"
  /\ gitFiles = [hasGit |-> FALSE, hasGitignore |-> FALSE]
  /\ ignoreRules = NoRules /\ consulted = 0
  /\ allFiles = << >> /\ idx = 0 /\ zipCalls = << >>
  /\ processed = 0 /\ skipped = 0 /\ warnings = 0 /\ infos = 0
  /\ error = ""
  /\ verdict = FALSE
  /\ ignoreRead = "none" /\ unreadable = {}
  /\ mapped = << >>
  /\ NoExtraction
  /\ runs = << >>
  /\ NoLate

\* let zipPath = processPath(filePath) (1035), filePath being path.join of the
\* folder and the entry's names
PathMap ==
  /\ pc = "pp_start"
  /\ \E platform \in {"posix", "win32"} :
       mapped' = [segs |-> ProcessPath(mode, customName, AbsPathOf(probe)),
                  sep |-> ProcessPathSep(platform, AbsPathOf(probe))]
  /\ pc' = "pp_done"
  /\ UNCHANGED << fsVars, optVars, outVars, destVars, token, gitVars, loopVars,
                  msgVars, error, probeVars, ioVars, exVars, runs, lateVars >>

PathNext == PathMap

PathSpec == PathInit /\ [][PathNext]_vars

(***************************************************************************)
(* Two createZipFromFolder calls in flight at once, on two folders, with   *)
(* two destinations outside both.  Every variable of a call is declared    *)
(* inside it (ignoreRules 982, gitFiles 983, zip 995, allFiles 998,        *)
(* processed 1003, skipped 1004), so each call has its own; a step of the  *)
(* model is what one call does between two awaits.                         *)
(***************************************************************************)
\* largest number of entries under each of the two folders
MaxPairTree == 2

PairTrees == { t \in Trees : Cardinality(t) <= MaxPairTree }

RunIds == {1, 2}

\* the rule file of a folder of the pair that holds a .gitignore
PairRuleLines(t) ==
  IF FileExists(t, <<".gitignore">>)
    THEN << Rule(FALSE, FALSE, <<"dist">>, FALSE) >> ELSE << >>

\* a call at its first await after the output path is resolved (979)
NewRun(t, g) ==
  [tree |-> t, gitExclusionMode |-> g, pc |-> "checkgit",
   gitFiles |-> [hasGit |-> FALSE, hasGitignore |-> FALSE],
   ignoreRules |-> NoRules,
   allFiles |-> << >>, idx |-> 0, zipCalls |-> << >>,
   processed |-> 0, skipped |-> 0,
   dest |-> NoDest]

\* skipped++ on a variable shared by every call
WithSkipped_ModuleLevel(rs, r, n) ==
  [q \in DOMAIN rs |-> [rs[q] EXCEPT !.skipped = n]]

\* skipped++ (1019, 1023, 1030) on the variable declared by the call itself (1004)
WithSkipped(rs, r, n) == [rs EXCEPT ![r].skipped = n]

\* the two calls are interchangeable: the pairs of Git handling modes are taken
\* up to their order
ModeRank(g) ==
  CASE g = "exclude_git" -> 1 [] g = "respect_gitignore" -> 2 [] OTHER -> 3

PairInit ==
  /\ \E t1 \in PairTrees, t2 \in PairTrees, g1 \in GitModes, g2 \in GitModes :
       /\ ModeRank(g1) <= ModeRank(g2)
       /\ runs = << NewRun(t1, g1), NewRun(t2, g2) >>
  /\ tree = {} /\ gitignoreText = << >>
  /\ pc = "pair"
  /\ mode = "with" /\ customName = "" /\ gitExclusionMode = "include_all"
  /\ outputPath = "none" /\ outputDirExists = FALSE /\ createdDirs = {}
  /\ destFile = NoDest /\ destWrites = 0
  /\ token = "absent"
  /\ gitFiles = [hasGit |-> FALSE, hasGitignore |-> FALSE]
  /\ ignoreRules = NoRules /\ consulted = 0
  /\ allFiles = << >> /\ idx = 0 /\ zipCalls = << >>
  /\ processed = 0 /\ skipped = 0 /\ warnings = 0 /\ infos = 0
  /\ error = ""
  /\ probe = << >> /\ verdict = FALSE
  /\ ignoreRead = "none" /\ unreadable = {}
  /\ mapped = << >>
  /\ NoExtraction
  /\ NoLate

soloVars == << fsVars, pc, optVars, outVars, destVars, token, gitVars, loopVars,
               msgVars, error, probeVars, ioVars, mapped, exVars, lateVars >>

\* lines 981-992 of call r
RunCheckGit(r) ==
  /\ runs[r].pc = "checkgit"
  /\ LET me == runs[r]
         gf == IF UsesGitFiles(me.gitExclusionMode)
                 THEN CheckGitFiles(me.tree) ELSE me.gitFiles
         ig == IF UsesGitFiles(me.gitExclusionMode) /\ gf.hasGitignore
                 THEN ParseGitignore(PairRuleLines(me.tree), TRUE)
                 ELSE me.ignoreRules
     IN runs' = [runs EXCEPT ![r].gitFiles = gf, ![r].ignoreRules = ig,
                             ![r].pc = "enumerate"]
  /\ UNCHANGED soloVars

\* lines 995-1004 of call r
RunEnumerate(r) ==
  /\ runs[r].pc = "enumerate"
  /\ runs' = [runs EXCEPT ![r].allFiles = GetAllFiles(runs[r].tree, << >>, {}),
                          ![r].idx = 1, ![r].pc = "loop"]
  /\ UNCHANGED soloVars

\* one pass of the loop (1006-1058) of call r
RunEntry(r) ==
  /\ runs[r].pc = "loop"
  /\ runs[r].idx <= Len(runs[r].allFiles)
  /\ LET me == runs[r]
         file == me.allFiles[me.idx]
         rel == file.relativePath
         zipPath == ProcessPath(mode, customName, file.path)
     IN IF \/ NameExcluded(me.gitExclusionMode, me.gitFiles, rel)
           \/ RuleExcluded(me.gitExclusionMode, me.ignoreRules, rel)
          THEN runs' = [WithSkipped(runs, r, me.skipped + 1) EXCEPT ![r].idx = me.idx + 1]
          ELSE runs' = [runs EXCEPT
                          ![r].zipCalls =
                             Append(me.zipCalls,
                                    [path |-> IF file.isDirectory THEN zipPath
                                               ELSE FlatPath(mode, zipPath),
                                     dir |-> file.isDirectory, src |-> rel]),
                          ![r].processed = me.processed + 1,
                          ![r].idx = me.idx + 1]
  /\ UNCHANGED soloVars

\* lines 1060-1069 of call r: the archive is generated and written to the
\* call's own destination
RunWrite(r) ==
  /\ runs[r].pc = "loop"
  /\ runs[r].idx > Len(runs[r].allFiles)
  /\ runs' = [runs EXCEPT
                ![r].dest = [exists |-> TRUE, entries |-> ArchiveEntries(runs[r].zipCalls)],
                ![r].pc = "done"]
  /\ UNCHANGED soloVars

PairNext ==
  \E r \in RunIds :
    \/ RunCheckGit(r)
    \/ RunEnumerate(r)
    \/ RunEntry(r)
    \/ RunWrite(r)

PairSpec == PairInit /\ [][PairNext]_vars

(***************************************************************************)
(* getAllFiles alone, on the folders of a POSIX host.                      *)
(***************************************************************************)
EnumInit ==
  /\ tree \in PosixTrees
  /\ gitignoreText = << >>
  /\ pc = "en_start"
  /\ mode = "with" /\ customName = "" /\ gitExclusionMode = "include_all"
  /\ outputPath = "none" /\ outputDirExists = FALSE /\ createdDirs = {}
  /\ destFile = NoDest /\ destWrites = 0
  /\ token = "absent"
  /\ gitFiles = [hasGit |-> FALSE, hasGitignore |-> FALSE]
  /\ ignoreRules = NoRules /\ consulted = 0
  /\ allFiles = << >> /\ idx = 0 /\ zipCalls = << >>
  /\ processed = 0 /\ skipped = 0 /\ warnings = 0 /\ infos = 0
  /\ error = ""
  /\ probe = << >> /\ verdict = FALSE
  /\ ignoreRead = "none" /\ unreadable = {}
  /\ mapped = << >>
  /\ NoExtraction
  /\ runs = << >>
  /\ NoLate

\* allFiles = await getAllFiles(folderAbsPath) (1001)
EnumWalk ==
  /\ pc = "en_start"
  /\ \E bad \in UnreadableChoices(tree) :
       /\ allFiles' = GetAllFiles(tree, << >>, bad)
       /\ unreadable' = bad
  /\ pc' = "en_done"
  /\ UNCHANGED << fsVars, optVars, outVars, destVars, token, gitVars, idx,
                  zipCalls, processed, skipped, consulted, msgVars, error,
                  probeVars, ignoreRead, otherVars >>

EnumNext == EnumWalk

EnumSpec == EnumInit /\ [][EnumNext]_vars

(***************************************************************************)
(* parseGitignore on lines that hold a `#`: what ig.add(gitignoreText)     *)
(* registers of a line, and what the loop of 671-718 takes for its rule.   *)
(***************************************************************************)
\* largest number of lines of a .gitignore with `#` in them
MaxCommentLines == 1

\* the texts "<name> # note" and "#<name>"
Noted(name) ==
  CASE name = "dist" -> "dist # note"
    [] name = "b.js" -> "b.js # note"
    [] OTHER -> name

Hashed(name) ==
  CASE name = "dist" -> "#dist"
    [] OTHER -> name

\* a line: a rule alone ("none"), a rule followed by " # note" ("inline"),
\* or a rule for a name that begins with `#`, written \#name ("escaped")
CommentBodies == { <<"dist">>, <<"dist", "b.js">> }

CommentLines ==
  { [rule |-> Rule(n, l, b, t), hash |-> h] :
      n \in BOOLEAN, l \in BOOLEAN, b \in CommentBodies, t \in BOOLEAN,
      h \in {"none", "inline"} }
  \cup { [rule |-> Rule(FALSE, FALSE, b, t), hash |-> "escaped"] :
           b \in CommentBodies, t \in BOOLEAN }

\* ig.add(gitignoreText) (665): `ignore` drops only the lines that begin
\* with `#`, and reads \# at the beginning of a line as the character `#`;
\* any other line is one pattern, its `#` and what follows included
VerbatimRule(line) ==
  LET r == line.rule
  IN CASE line.hash = "inline" ->
            IF r.trail
              THEN Rule(r.neg, r.lead, r.segs \o <<" # note">>, FALSE)
              ELSE Rule(r.neg, r.lead,
                        [r.segs EXCEPT ![Len(r.segs)] = Noted(@)], FALSE)
       [] line.hash = "escaped" ->
            Rule(r.neg, r.lead, [r.segs EXCEPT ![1] = Hashed(@)], r.trail)
       [] OTHER -> r

\* rulePart (679-687): the trimmed line up to its first `#`, trimmed again;
\* of \#name that is the backslash alone
RulePart(line) ==
  CASE line.hash = "escaped" -> Rule(FALSE, FALSE, <<"\\">>, FALSE)
    [] OTHER -> line.rule

\* the matcher parseGitignore returns for these lines
CommentParsedRules(lines) ==
  [i \in 1..Len(lines) |-> VerbatimRule(lines[i])]
    \o AdditionalRules([i \in 1..Len(lines) |-> RulePart(lines[i])])

CommentProbes ==
  { <<"dist">>, <<"dist", "b.js">>, <<"dist # note">>, <<"#dist">>,
    <<"#dist", "b.js">>, <<"x.txt">> }

CommentInit ==
  /\ tree = {3}
  /\ gitignoreText \in SeqsUpTo(CommentLines, MaxCommentLines)
  /\ pc = "cm_start"
  /\ mode = "with" /\ customName = "" /\ gitExclusionMode = "respect_gitignore"
  /\ outputPath = "none" /\ outputDirExists = FALSE /\ createdDirs = {}
  /\ destFile = NoDest /\ destWrites = 0
  /\ token = "absent"
  /\ gitFiles = [hasGit |-> FALSE, hasGitignore |-> TRUE]
  /\ ignoreRules = NoRules /\ consulted = 0
  /\ allFiles = << >> /\ idx = 0 /\ zipCalls = << >>
  /\ processed = 0 /\ skipped = 0 /\ warnings = 0 /\ infos = 0
  /\ error = ""
  /\ probe = << >> /\ verdict = FALSE
  /\ ignoreRead = "none" /\ unreadable = {}
  /\ mapped = << >>
  /\ NoExtraction
  /\ runs = << >>
  /\ NoLate

\* parseGitignore(gitignorePath), the file readable (658-729)
CmParse ==
  /\ pc = "cm_start"
  /\ ignoreRules' = [built |-> TRUE, rules |-> CommentParsedRules(gitignoreText)]
  /\ ignoreRead' = "ok"
  /\ pc' = "cm_parsed"
  /\ UNCHANGED << fsVars, optVars, outVars, destVars, token, gitFiles, loopVars,
                  msgVars, error, probeVars, unreadable, otherVars >>

\* ignoreRules.ignores(relativePath) (1029)
CmProbe ==
  /\ pc = "cm_parsed"
  /\ \E p \in CommentProbes :
       /\ probe' = p
       /\ verdict' = Ignores(ignoreRules.rules, p)
  /\ consulted' = consulted + 1
  /\ pc' = "cm_probed"
  /\ UNCHANGED << fsVars, optVars, outVars, destVars, token, gitVars, allFiles, idx,
                  zipCalls, processed, skipped, msgVars, error, ioVars, otherVars >>

CommentNext == CmParse \/ CmProbe

CommentSpec == CommentInit /\ [][CommentNext]_vars

(***************************************************************************)
(* gzipFile (cmds.js 395-501).  A file name is the sequence of its parts   *)
(* between dots; a path is a directory and a file name.                    *)
(***************************************************************************)
\* largest number of files handed to one gzipFile call
MaxGzFiles == 2

GzNames == { <<"log">>, <<"log", "gz">>, <<"a", "tar">> }

\* the files selected: in one directory, pairwise distinct
GzSelections ==
  { s \in SeqsUpTo(GzNames, MaxGzFiles) :
      \A i, j \in 1..Len(s) : (i # j) => (s[i] # s[j]) }

\* gz-map.json (10): the tables of the model
GzMaps == { {}, { [inflated |-> "tar", compressed |-> "tgz"] } }

\* fileNameParts[fileNameParts.length - 1] (408-413)
ExtOf(name) == name[Len(name)]

\* newExt (416-422)
NewExtOf(map, name) ==
  IF \E m \in map : m.inflated = ExtOf(name)
    THEN (CHOOSE m \in map : m.inflated = ExtOf(name)).compressed
    ELSE "gz"

\* String.prototype.toLowerCase on one part
Lower(part) == IF part = "GZ" THEN "gz" ELSE part

\* what the user may answer to showInputBox (438-443): nothing, the default
\* `${fileName}.${newExt}` (425), another file name, or a path
NoInput == [dir |-> "", name |-> << >>]

GzInputs(map, name) ==
  { NoInput,
    [dir |-> "", name |-> name \o << NewExtOf(map, name) >>],
    [dir |-> "", name |-> <<"log", "gz">>],
    [dir |-> "", name |-> <<"out">>],
    [dir |-> "", name |-> <<"out", "GZ">>],
    [dir |-> "/tmp", name |-> <<"out", "gz">>] }

\* normalizedInput (448-453): the extension is appended unless the input,
\* in lower case, ends with it
NormalizedInput(input, newExt) ==
  IF Len(input.name) >= 2 /\ Lower(input.name[Len(input.name)]) = newExt
    THEN input
    ELSE [input EXCEPT !.name = @ \o << newExt >>]

\* outputPath (457-468): a path is used as it is, a bare name is put in the
\* directory of the original
GzOutputPath(fileDir, normalized) ==
  IF normalized.dir # "" THEN normalized
  ELSE [normalized EXCEPT !.dir = fileDir]

GzDir == "/work"

GzOnDisk(disk, p) == \E f \in disk : f.path = p

GzWriteFile(disk, p, content) ==
  { f \in disk : f.path # p } \cup { [path |-> p, content |-> content] }

GzipInit ==
  /\ \E sel \in GzSelections, map \in GzMaps, del \in BOOLEAN :
       gz = [files |-> sel, map |-> map, deleteOld |-> del, i |-> 1,
             disk |-> { [path |-> [dir |-> GzDir, name |-> sel[k]],
                         content |-> <<"plain", sel[k]>>] : k \in 1..Len(sel) },
             output |-> NoInput, log |-> << >>]
  /\ pc = "gz_loop"
  /\ tree = {} /\ gitignoreText = << >>
  /\ mode = "with" /\ customName = "" /\ gitExclusionMode = "include_all"
  /\ outputPath = "none" /\ outputDirExists = FALSE /\ createdDirs = {}
  /\ destFile = NoDest /\ destWrites = 0
  /\ token = "absent"
  /\ gitFiles = [hasGit |-> FALSE, hasGitignore |-> FALSE]
  /\ ignoreRules = NoRules /\ consulted = 0
  /\ allFiles = << >> /\ idx = 0 /\ zipCalls = << >>
  /\ processed = 0 /\ skipped = 0 /\ warnings = 0 /\ infos = 0
  /\ error = ""
  /\ probe = << >> /\ verdict = FALSE
  /\ ignoreRead = "none" /\ unreadable = {}
  /\ mapped = << >>
  /\ NoExtraction
  /\ runs = << >>
  /\ loadState = "none"

gzRest == << fsVars, optVars, outVars, destVars, token, gitVars, loopVars,
             msgVars, probeVars, ioVars, mapped, exVars, runs, loadState >>

\* the catch of 496-500 ends the loop; a cancelled input box is not reported
GzThrow(msg) ==
  /\ pc' = "gz_done"
  /\ error' = IF msg = "No output path specified" THEN "" ELSE "Failed to gzip"

\* one pass up to the write (403-486): the input box, readFile, gzip,
\* writeFile
GzCompress ==
  /\ pc = "gz_loop"
  /\ gz.i <= Len(gz.files)
  /\ LET name == gz.files[gz.i]
         original == [dir |-> GzDir, name |-> name]
         newExt == NewExtOf(gz.map, name)
     IN \E input \in GzInputs(gz.map, name), readOk \in BOOLEAN, writeOk \in BOOLEAN :
          LET out == GzOutputPath(GzDir, NormalizedInput(input, newExt))
              data == CHOOSE f \in gz.disk : f.path = original
          IN /\ readOk => GzOnDisk(gz.disk, original)
             /\ IF input = NoInput
                  THEN GzThrow("No output path specified") /\ gz' = gz
                ELSE IF ~readOk
                  THEN GzThrow("readFile") /\ gz' = gz
                ELSE IF ~writeOk
                  THEN /\ GzThrow("writeFile")
                       /\ gz' = [gz EXCEPT !.output = out]
                ELSE /\ gz' = [gz EXCEPT
                                 !.output = out,
                                 !.disk = GzWriteFile(@, out, <<"gzip", data.content>>)]
                     /\ pc' = "gz_written"
                     /\ error' = error
  /\ UNCHANGED gzRest

\* if (config.deleteOldFileWhenGzipping) await fs.delete(fileUri) (489-491),
\* then the next file
GzDelete ==
  /\ pc = "gz_written"
  /\ LET original == [dir |-> GzDir, name |-> gz.files[gz.i]]
         entry(deleted) == [original |-> original, output |-> gz.output,
                            deleted |-> deleted]
     IN IF ~gz.deleteOld
          THEN /\ gz' = [gz EXCEPT !.i = @ + 1, !.log = Append(@, entry(FALSE))]
               /\ pc' = "gz_loop"
               /\ error' = error
          ELSE \E deleteOk \in BOOLEAN :
                 /\ deleteOk => GzOnDisk(gz.disk, original)
                 /\ IF deleteOk
                      THEN /\ gz' = [gz EXCEPT
                                       !.i = @ + 1,
                                       !.disk = { f \in @ : f.path # original },
                                       !.log = Append(@, entry(TRUE))]
                           /\ pc' = "gz_loop"
                           /\ error' = error
                      ELSE /\ GzThrow("delete")
                           /\ gz' = [gz EXCEPT !.log = Append(@, entry(FALSE))]
  /\ UNCHANGED gzRest

\* the loop ends (403, 495)
GzDone ==
  /\ pc = "gz_loop"
  /\ gz.i > Len(gz.files)
  /\ pc' = "gz_done"
  /\ UNCHANGED << gz, error, gzRest >>

GzipNext == GzCompress \/ GzDelete \/ GzDone

GzipSpec == GzipInit /\ [][GzipNext]_vars

(***************************************************************************)
(* The zip editor (ZipEdit.resolveCustomEditor): the archive load of       *)
(* 94-104 and the message handler of 106-266, which share zipFileData.     *)
(* The page handed to the webview (68-92) holds the three extract buttons  *)
(* from the start; the names of the entries reach it with the "files"      *)
(* message (97), once the archive is loaded.                               *)
(***************************************************************************)
ArchiveFileNames(z) ==
  { z[i].name : i \in { j \in 1..Len(z) : ~z[j].dir } }

\* the messages the webview can post, given what it was sent so far
WebviewMessages ==
  { [command |-> c, uriList |-> << >>] :
      c \in {"extract-all-folder", "extract-all-here", "selective-extract"} }
  \cup
  (IF loadState = "loaded"
     THEN { [command |-> c, uriList |-> <<n>>] :
              c \in {"get", "selective-extract"}, n \in ArchiveFileNames(zipFileData) }
     ELSE {})

EditorInit ==
  /\ loadState = "pending"
  /\ zipFileData = << >>
  /\ pc = "ed_idle"
  /\ command = "none" /\ uriList = << >> /\ cursor = 0
  /\ targetDirs = {} /\ targetFiles = {}
  /\ attempted = {} /\ failedEntries = {} /\ reported = {}
  /\ successShown = FALSE /\ pendingWrites = {}
  /\ tree = {} /\ gitignoreText = << >>
  /\ mode = "with" /\ customName = "" /\ gitExclusionMode = "include_all"
  /\ outputPath = "none" /\ outputDirExists = FALSE /\ createdDirs = {}
  /\ destFile = NoDest /\ destWrites = 0
  /\ token = "absent"
  /\ gitFiles = [hasGit |-> FALSE, hasGitignore |-> FALSE]
  /\ ignoreRules = NoRules /\ consulted = 0
  /\ allFiles = << >> /\ idx = 0 /\ zipCalls = << >>
  /\ processed = 0 /\ skipped = 0 /\ warnings = 0 /\ infos = 0
  /\ error = ""
  /\ probe = << >> /\ verdict = FALSE
  /\ ignoreRead = "none" /\ unreadable = {}
  /\ mapped = << >>
  /\ runs = << >>
  /\ gz = << >>

edRest == << fsVars, optVars, outVars, destVars, token, gitVars, loopVars,
             msgVars, probeVars, ioVars, mapped, runs, gz, cursor, targetDirs,
             targetFiles, attempted, failedEntries, reported, successShown,
             pendingWrites >>

\* getFileData(...).then: zipFileData = _f (95-96)
LoadResolves ==
  /\ loadState = "pending"
  /\ zipFileData' \in ForeignArchives
  /\ loadState' = "loaded"
  /\ UNCHANGED << pc, error, command, uriList, edRest >>

\* getFileData(...) rejects (102-104): the error is shown, zipFileData stays
\* undefined
LoadRejects ==
  /\ loadState = "pending"
  /\ loadState' = "failed"
  /\ error' = "JSZip encountered an error"
  /\ UNCHANGED << pc, zipFileData, command, uriList, edRest >>

\* onDidReceiveMessage (106): the handler runs up to its first use of
\* zipFileData.  No branch tests whether zipFileData is set.  An empty
\* selection is refused (210-213); a selective extraction waits for the
\* folder dialog, which may be dismissed (215).
EditorMessage ==
  /\ pc = "ed_idle"
  /\ \E msg \in WebviewMessages, picked \in BOOLEAN :
       /\ (msg.command # "selective-extract") => picked
       /\ command' = msg.command
       /\ uriList' = msg.uriList
       /\ IF msg.command = "selective-extract" /\ msg.uriList = << >>
            THEN /\ error' = "No files are selected."
                 /\ pc' = pc
            ELSE /\ error' = error
                 /\ pc' = IF picked THEN "ed_deref" ELSE pc
  /\ UNCHANGED << loadState, zipFileData, edRest >>

\* zipFileData.files (124, 201, 221, 246): a TypeError while zipFileData is
\* undefined
EdDereference ==
  /\ pc = "ed_deref"
  /\ error' = IF loadState = "loaded" THEN error ELSE "TypeError"
  /\ pc' = "ed_idle"
  /\ UNCHANGED << loadState, zipFileData, command, uriList, edRest >>

EditorNext ==
  \/ LoadResolves
  \/ LoadRejects
  \/ EditorMessage
  \/ EdDereference

EditorSpec == EditorInit /\ [][EditorNext]_vars

(***************************************************************************)
(* Claims.                                                                 *)
(***************************************************************************)
CallsOf(rel) == { i \in 1..Len(zipCalls) : zipCalls[i].src = rel }

\* C1: with the naming mode 'with', every entry added to the archive is
\* stored as rootFolderName/relativePath, never under its bare relative path.
C1_WithFolderPrefixesRoot ==
  mode = "with" =>
    \A i \in 1..Len(zipCalls) : zipCalls[i].path = <<RootName>> \o zipCalls[i].src

\* C2: with the naming mode 'custom', every entry added to the archive is
\* stored as customName/relativePath, and as rootFolderName/relativePath when
\* the custom name is empty.
C2_CustomNamePrefixes ==
  mode = "custom" =>
    \A i \in 1..Len(zipCalls) :
      zipCalls[i].path =
        <<IF customName # "" THEN customName ELSE RootName>> \o zipCalls[i].src

\* the relative paths the explicit check of exclude_git names
GitNamed(rel) ==
  rel = <<".git">> \/ (Len(rel) > 1 /\ rel[1] = ".git") \/ rel = <<".gitignore">>

\* the matcher the run built matches the path
MatcherMatches(rel) == ignoreRules.built /\ Ignores(ignoreRules.rules, rel)

\* the written archive holds the entry enumerated under rel
InArchive(rel) == \E a \in destFile.entries : a.src = rel

EnumeratedPaths == { allFiles[i].relativePath : i \in 1..Len(allFiles) }

\* C3: under exclude_git the written archive holds no entry that is .git,
\* under .git/, .gitignore or matched by the matcher, and holds every other
\* enumerated entry.
C3_ExcludeGitArchive ==
  (pc = "done" /\ gitExclusionMode = "exclude_git") =>
    \A rel \in EnumeratedPaths :
      IF GitNamed(rel) \/ MatcherMatches(rel)
        THEN ~InArchive(rel)
        ELSE InArchive(rel)

\* the entries the loop has passed
PassedPaths == { allFiles[i].relativePath : i \in 1..(idx - 1) }

\* C4: under respect_gitignore an enumerated entry is dropped exactly when the
\* matcher matches its relative path; .git, what lies under it and .gitignore
\* are in the written archive whenever no rule matches them.
C4_RespectGitignoreDropsOnlyMatches ==
  (gitExclusionMode = "respect_gitignore" /\ pc \in {"loop", "write", "done", "failed"}) =>
    /\ \A rel \in PassedPaths : (CallsOf(rel) = {}) <=> MatcherMatches(rel)
    /\ pc = "done" =>
         \A rel \in EnumeratedPaths :
           (GitNamed(rel) /\ ~MatcherMatches(rel)) => InArchive(rel)

\* a run under respect_gitignore with the single rule /dist/ that dropped
\* dist/b.js and wrote .git and .gitignore
C4_Witness ==
  /\ pc = "done" /\ gitExclusionMode = "respect_gitignore"
  /\ gitignoreText = << Rule(FALSE, TRUE, <<"dist">>, TRUE) >>
  /\ ignoreRules.rules # << >>
  /\ <<"dist", "b.js">> \in EnumeratedPaths
  /\ ~InArchive(<<"dist", "b.js">>)
  /\ InArchive(<<".git">>) /\ InArchive(<<".gitignore">>)

\* C5: under include_all no matcher is built or asked, nothing is skipped,
\* and every enumerated entry is added to the archive.
C5_IncludeAllDropsNothing ==
  (gitExclusionMode = "include_all" /\ pc \notin {"ig_start", "ig_parsed", "ig_probed"}) =>
    /\ ignoreRules = NoRules
    /\ consulted = 0
    /\ skipped = 0
    /\ \A rel \in PassedPaths : CallsOf(rel) # {}
    /\ pc \in {"write", "done"} =>
         /\ processed = Len(allFiles)
         /\ \A rel \in EnumeratedPaths : CallsOf(rel) # {}

\* a finished include_all run over a folder with .git, .gitignore and a
\* directory its rule names, all of them added
C5_Witness ==
  /\ pc = "done" /\ gitExclusionMode = "include_all"
  /\ gitignoreText = << Rule(FALSE, FALSE, <<"dist">>, FALSE) >>
  /\ EnumeratedPaths = { <<".git">>, <<".gitignore">>, <<"dist">>, <<"dist", "b.js">> }
  /\ \A rel \in EnumeratedPaths : InArchive(rel)

\* no entry has been processed yet
NoEntryProcessed ==
  pc \in {"resolve", "checkgit", "enumerate"} \/ (pc = "loop" /\ idx = 1)

\* C6: once the token reports cancellation before any entry is processed, the
\* run goes on to no finalization and no write of the destination, whatever
\* the tree, an empty one included.
C6_CancelBeforeFirstEntryNeverWrites ==
  [][ (token = "requested" /\ NoEntryProcessed)
        => (pc' \notin {"write", "done"} /\ ~destFile'.exists) ]_vars

\* C7: a run that ended cancelled has written no destination and created no
\* directory.
C7_CancelLeavesFilesystemUnchanged ==
  (pc = "failed" /\ error = "Compression cancelled") =>
    (~destFile.exists /\ createdDirs = {})

\* C8: a source file's read failure does not end the run: the file is counted
\* as skipped and a warning is recorded.
C8_ReadFailureIsSkipped ==
  error = "readFile failed" => (pc # "failed" /\ skipped > 0 /\ warnings > 0)

\* C9: a path the original rules alone ignore is ignored by the matcher
\* parseGitignore returns, whatever the rule file, negated rules included.
C9_ExpansionOnlyWidens ==
  pc = "ig_probed" =>
    (Ignores(OriginalRules(gitignoreText), probe) => verdict)

\* the rule body names a directory literally
LiteralBody(r) == \A k \in 1..Len(r.segs) : r.segs[k] # "*.txt"

IsPrefixOf(x, p) == Len(x) <= Len(p) /\ SubSeq(p, 1, Len(x)) = x

NoNegatedLine == \A i \in 1..Len(gitignoreText) : ~gitignoreText[i].neg

\* C10: a rule naming a directory X as X/, X, /X or /X/ makes the matcher
\* ignore the path X and every path under X (the rule alone, or among other
\* rules none of which is negated).
C10_FourShapesIgnoreDirectoryAndContent ==
  (pc = "ig_probed" /\ NoNegatedLine) =>
    \A i \in 1..Len(gitignoreText) :
      (LiteralBody(gitignoreText[i]) /\ IsPrefixOf(gitignoreText[i].segs, probe))
        => verdict

\* the rule dist/ alone, asked about the directory's own path
C10_Witness ==
  /\ pc = "ig_probed"
  /\ gitignoreText = << Rule(FALSE, FALSE, <<"dist">>, TRUE) >>
  /\ probe = <<"dist">>
  /\ verdict

\* the files of a tree, and its directories that hold nothing
FilePathsOf(t) == { Candidates[i].rel : i \in { j \in t : ~Candidates[j].dir } }

EmptyDirsOf(t) ==
  { Candidates[i].rel :
      i \in { j \in t : /\ Candidates[j].dir
                        /\ ~\E k \in t : /\ Len(Candidates[k].rel) > 1
                                         /\ ParentOf(Candidates[k].rel) = Candidates[j].rel } }

\* an extract-all of the archive built from `tree` ended with no entry failing
ExtractedBuiltArchive ==
  /\ pc = "ex_done"
  /\ command \in {"extract-all-folder", "extract-all-here"}
  /\ zipFileData = BuiltArchive(tree)
  /\ failedEntries = {}

\* C11: extracting all of the archive built from a tree with the mode 'with'
\* and include_all leaves exactly the tree's files, each with its content,
\* under the target (directly or under the root folder's name), and every
\* empty directory of the tree.
C11_RoundTrip ==
  ExtractedBuiltArchive =>
    \E root \in { << >>, <<RootName>> } :
      LET under == DestPrefix(command) \o root
      IN /\ targetFiles = { [path |-> under \o rel, content |-> rel] : rel \in FilePathsOf(tree) }
         /\ \A d \in EmptyDirsOf(tree) : (under \o d) \in targetDirs

\* the selected names the archive holds as files
SelectedPresent ==
  { uriList[i] : i \in { j \in 1..Len(uriList) : IndexOfEntry(zipFileData, uriList[j], FALSE) # 0 } }

IsWritten(name) ==
  \E f \in targetFiles : f.path = DestPrefix(command) \o name

\* C12: a selective extraction whose selection names an entry the archive does
\* not hold ends without an error, and every selected entry that the archive
\* holds and whose extraction did not fail is written.
C12_AbsentNameSkippedSilently ==
  (command = "selective-extract" /\ pc \in {"ex_done", "ex_failed"}
     /\ uriList # << >> /\ pendingWrites = {}) =>
    /\ pc = "ex_done" /\ error = ""
    /\ \A name \in SelectedPresent \ failedEntries : IsWritten(name)

\* the entries an extraction is asked to write
ToExtract ==
  IF command = "selective-extract" THEN SelectedPresent
  ELSE { zipFileData[i].name : i \in { j \in 1..Len(zipFileData) : ~zipFileData[j].dir } }

\* C13: when the extraction of an entry fails, the failure is reported and
\* every entry of the extraction is still attempted.
C13_FailureDoesNotStopExtraction ==
  (pc \in {"ex_done", "ex_failed"} /\ failedEntries # {}
     /\ \A i \in 1..Len(uriList) : uriList[i] # AbsentName) =>
    /\ failedEntries \subseteq reported
    /\ ToExtract \subseteq attempted

C15_DestinationFailsFast ==
  /\ (pc = "failed" /\ error \in {"No output path specified", "Invalid path format"})
       => (idx = 0 /\ allFiles = << >> /\ zipCalls = << >> /\ ~destFile.exists)
  /\ (outputPath # "none" /\ ~outputDirExists)
       => (idx = 0 /\ pc \notin {"loop", "write", "done"})

\* C16: whatever the naming mode, the path processPath gives an enumerated
\* entry has no leading "/", no ".." segment and no drive-letter prefix, and
\* its separators are forward slashes.
C16_ArchivePathIsClean ==
  pc = "pp_done" =>
    /\ mapped.segs # << >>
    /\ mapped.segs[1] # "/"
    /\ \A k \in 1..Len(mapped.segs) : mapped.segs[k] # ".."
    /\ ~StartsWithDrive(mapped.segs)
    /\ mapped.sep = "/"

\* C17: when the root's .gitignore was found but could not be read, the
\* matcher matches no path and the run goes on: under respect_gitignore no
\* entry is dropped, under exclude_git only .git, what lies under it and
\* .gitignore are.
C17_UnreadableGitignoreFailsOpen ==
  ignoreRead = "failed" =>
    /\ ignoreRules.built
    /\ \A rel \in ProbePaths : ~Ignores(ignoreRules.rules, rel)
    /\ pc \in {"enumerate", "loop", "write", "done", "failed"}
    /\ pc = "failed" =>
         error \in {"Compression cancelled", "readFile failed", "writeFile failed"}
    /\ \A rel \in PassedPaths :
         (CallsOf(rel) = {}) <=> (gitExclusionMode = "exclude_git" /\ GitNamed(rel))

\* a finished respect_gitignore run whose .gitignore names dist and could not
\* be read: dist and dist/b.js are in the archive
C17_Witness ==
  /\ ignoreRead = "failed"
  /\ gitignoreText = << Rule(FALSE, FALSE, <<"dist">>, FALSE) >>
  /\ gitExclusionMode = "respect_gitignore"
  /\ pc = "done"
  /\ InArchive(<<"dist">>) /\ InArchive(<<"dist", "b.js">>)
  /\ skipped = 0

\* the entry lies in, or is, a directory that could not be listed
UnderUnreadable(rel) == \E d \in unreadable : IsPrefixOf(d, rel)

\* what getAllFiles returns when every directory can be listed, without the
\* entries of the directories that could not
KeptEntries ==
  SelectSeq(GetAllFiles(tree, << >>, {}), LAMBDA e : ~UnderUnreadable(e.relativePath))

\* C18: a subdirectory that cannot be listed takes only itself and what lies
\* under it out of the enumeration: every other entry of the tree, before or
\* after it, is returned, in order, to the run, which goes on to its loop.
C18_UnreadableSubdirectorySkipped ==
  (idx = 1 /\ unreadable # {} /\ << >> \notin unreadable) =>
    /\ pc \in {"loop", "write", "done", "failed"}
    /\ \A i \in tree :
         ~UnderUnreadable(Candidates[i].rel) => Candidates[i].rel \in EnumeratedPaths
    /\ allFiles = KeptEntries

\* dist cannot be listed: .gitignore, met before it, and x.txt, met after it,
\* are both returned
C18_Witness ==
  /\ tree = {3, 6, 7, 8}
  /\ unreadable = { <<"dist">> }
  /\ pc = "loop"
  /\ EnumeratedPaths = { <<".gitignore">>, <<"x.txt">> }

AloneRules(t, g) ==
  IF UsesGitFiles(g) /\ CheckGitFiles(t).hasGitignore
    THEN ParseGitignore(PairRuleLines(t), TRUE) ELSE NoRules

AloneGitFiles(t, g) ==
  IF UsesGitFiles(g) THEN CheckGitFiles(t)
  ELSE [hasGit |-> FALSE, hasGitignore |-> FALSE]

AloneFiles(t) == GetAllFiles(t, << >>, {})

AloneCalls(t, g) ==
  LoopCalls(AloneFiles(t), mode, customName, g, AloneGitFiles(t, g), AloneRules(t, g))

C21_WrittenOnceAfterAllEntries ==
  /\ destWrites <= 1
  /\ destFile.exists =>
       /\ destWrites = 1
       /\ pc = "done"
       /\ idx = Len(allFiles) + 1
       /\ processed + skipped = Len(allFiles)
  /\ (pc = "failed") => (destWrites = 0 /\ ~destFile.exists)

\* a run over three entries, one of them skipped, that wrote its destination
C21_Witness ==
  /\ pc = "done"
  /\ destFile.exists /\ destWrites = 1
  /\ Len(allFiles) >= 3
  /\ skipped >= 1 /\ processed >= 1

\* C22: with the output in the folder itself ('current'), the destination
\* resolves for every absolute folder path, POSIX or with a drive letter,
\* and the build goes on: no run ends in 'Invalid path format'.
C22_CurrentDirResolves ==
  (pc = "failed") => (error # "Invalid path format")

\* the entries of an enumeration, by index
EnumeratedIndexes == 1..Len(allFiles)

\* C23: in the result of getAllFiles the root is no entry, the relativePaths
\* are pairwise distinct, a directory's entry comes before every entry
\* beneath it, and each relativePath is the entry's path relative to the
\* root.
C23_EnumerationWellFormed ==
  (pc = "en_done") =>
    /\ \A i \in EnumeratedIndexes :
         /\ allFiles[i].path # FolderAbsPath
         /\ allFiles[i].relativePath # << >>
         /\ allFiles[i].relativePath = RelativeToFolder(allFiles[i].path)
    /\ \A i, j \in EnumeratedIndexes :
         (i # j) => (allFiles[i].relativePath # allFiles[j].relativePath)
    /\ \A i, j \in EnumeratedIndexes :
         (/\ allFiles[i].isDirectory
          /\ i # j
          /\ IsPrefixOf(allFiles[i].path, allFiles[j].path)) => (i < j)

\* C25: a run that left the loop having skipped at least one entry has shown
\* the skipped count exactly once, after the last entry and before the
\* destination is written, and a run that skipped nothing has shown none;
\* the entries added and the entries skipped are all the entries enumerated.
C25_SkippedReportedOnce ==
  /\ (pc \in {"write", "done"}) =>
       /\ infos = (IF skipped > 0 THEN 1 ELSE 0)
       /\ processed + skipped = Len(allFiles)
       /\ processed = Len(zipCalls)
  /\ (pc \in {"idle", "resolve", "checkgit", "enumerate", "loop"}) => (infos = 0)
  /\ (destFile.exists /\ skipped > 0) => (infos = 1)

\* a finished run that skipped the .git directory and added another entry
C25_Witness ==
  /\ pc = "done"
  /\ gitExclusionMode = "exclude_git"
  /\ skipped >= 2 /\ processed >= 1
  /\ infos = 1

\* C26: processPath maps the enumerated entries that are added to the
\* archive to pairwise distinct archive paths.
C26_ProcessPathInjective ==
  \A i, j \in 1..Len(zipCalls) :
    (i # j) => (zipCalls[i].path # zipCalls[j].path)

\* a .gitignore of one line was parsed and one path tested
OneLineProbed == pc = "cm_probed" /\ Len(gitignoreText) = 1

\* C24: a line `R # comment` is cut at the `#` and R itself is registered,
\* so the path equal to R is ignored; a line that begins with an escaped
\* `\#` is not cut: the rules registered for it are those of the whole line.
C24_InlineCommentStripped ==
  OneLineProbed =>
    LET line == gitignoreText[1]
    IN /\ (line.hash = "inline" /\ ~line.rule.neg /\ probe = line.rule.segs)
            => verdict
       /\ (line.hash = "escaped")
            => ignoreRules.rules = ParsedRules(<< VerbatimRule(line) >>)

\* the pass of gzipFile that has just ended, if any
GzLast == gz.log[Len(gz.log)]

\* C30: when gzipFile deletes an original, the compressed file was written
\* before, and after the pass the original or the output exists, whatever
\* the output path, the original's own path included.
C30_OriginalOrOutputRemains ==
  (pc \in {"gz_loop", "gz_done"} /\ gz # << >> /\ gz.log # << >> /\ GzLast.deleted) =>
    \/ GzOnDisk(gz.disk, GzLast.original)
    \/ GzOnDisk(gz.disk, GzLast.output)

\* C28: an extract-all shows 'Successfully extracted all files.' only when
\* every file entry of the archive was extracted without error.
C28_SuccessOnlyWhenAllExtracted ==
  successShown =>
    /\ failedEntries = {}
    /\ \A name \in ToExtract : IsWritten(name)

\* C29: when the progress operation of a selective extraction finishes,
\* every write it issued has completed, and no write that failed is left
\* unreported.
C29_WritesSettledAtFinish ==
  (command = "selective-extract" /\ pc = "ex_done") =>
    /\ pendingWrites = {}
    /\ failedEntries \subseteq reported

\* C27: the handlers of the editor's messages use the archive data only
\* when it is loaded: in no interleaving of the load, or its failure, with
\* the messages is zipFileData dereferenced while undefined.
C27_ArchiveLoadedWhenUsed ==
  (pc \in {"ed_idle", "ed_deref"}) => (error # "TypeError")

=============================================================================
